---- MODULE Spec2Model ----
(***************************************************************************)
(* Model of the DdAgentStack topology assembly (lib/dd-agent-stack.ts) and *)
(* of its command-line entry point (bin/dd-agent-poc.ts).                  *)
(*                                                                         *)
(* One run of the DdAgentStack constructor is a straight-line program: it  *)
(* adds constructs to the stack's construct tree one statement after the   *)
(* other, and any call may throw, which leaves the constructor at once.    *)
(* Each statement of the constructor is one action below.  A stack whose   *)
(* constructor returned is synthesised and deployed; from then on the      *)
(* request-count scaling policy it configured moves the service's desired  *)
(* task count.                                                             *)
(***************************************************************************)
EXTENDS Integers, Sequences, FiniteSets, TLC

VARIABLES
    props,      \* props[i]: the DdAgentStackProps (and stack id) of invocation i
    imageDir,   \* imageDir[i]: does the Docker build directory of invocation i exist
    pc,         \* pc[i]: the statement invocation i is about to execute
    error,      \* error[i]: the statement whose call threw, or NoError
    tree,       \* tree[i]: construct id -> properties, for every construct created
    order,      \* order[i]: the statements executed so far, in execution order
    outputs,    \* outputs[i]: CfnOutput id -> value
    desired,    \* desired[i]: the service's current desired task count
    observed,   \* observed[i]: the request volume last reported for the target group
    cooling,    \* cooling[i]: seconds of cooldown left after the last scaling action
    sinceLast,  \* sinceLast[i]: seconds since the last scaling action (-1: none yet)
    lastGap     \* lastGap[i]: seconds between the last two scaling actions (-1: fewer than two)

vars == <<props, imageDir, pc, error, tree, order, outputs, desired, observed, cooling,
          sinceLast, lastGap>>

(***************************************************************************)
(* Bounds of the model.                                                    *)
(***************************************************************************)
MaxEnvLen == 2          \* environment names of up to this many characters
MaxTaskCountInput == 3  \* props.maxTaskCount ranges over -1 .. this, or is absent
MaxTargetInput == 2     \* props.targetRequestCountPerTask ranges over -1 .. this, or is absent
MaxRequests == 4        \* observed request volumes range over 0 .. this
TickSeconds == 20       \* the clock advances by this many seconds per tick
MaxZonesAvailable == 3  \* the stack's region offers 1 .. this many availability zones

Apps == {1, 2}          \* assembler invocations

EnvChars == {"a", "-"}

RECURSIVE StringsUpTo(_)
StringsUpTo(n) ==
    IF n = 0 THEN {""}
    ELSE LET S == StringsUpTo(n - 1) IN S \cup {s \o c : s \in S, c \in EnvChars}

EnvNames == StringsUpTo(MaxEnvLen)

\* An optional number is <<>> (undefined) or <<n>>.
Absent == <<>>
OptionalFrom(S) == {Absent} \cup {<<n>> : n \in S}

Max(a, b) == IF a >= b THEN a ELSE b
Min(a, b) == IF a <= b THEN a ELSE b

(***************************************************************************)
(* bin/dd-agent-poc.ts                                                     *)
(***************************************************************************)
\* const envName = process.env.ENV_NAME || 'dev';
EntryEnvName(envVar) == IF envVar = "" THEN "dev" ELSE envVar

\* new DdAgentStack(app, `DdAgentStack2-${envName}`, ...)
StackId(envName) == "DdAgentStack2-" \o envName

\* new DdAgentStack(app, 'MyTestStack', ...) in the test
TestStackId == "MyTestStack"

(***************************************************************************)
(* src/server.ts: the workload the container runs.                         *)
(***************************************************************************)
ServerDefaultPort == 80

\* const PORT = Number(process.env.PORT || 80);
ServerListenPort(portEnv) == IF portEnv = Absent THEN ServerDefaultPort ELSE portEnv[1]

\* app.get('/health', ...) and app.get('/', ...) answer 200; no other route exists
ServerRoutes == {"/health", "/"}

RouteStatus(path) == IF path \in ServerRoutes THEN 200 ELSE 404

\* The port a URL addresses: its own, or the default of its scheme.
UrlPort(url) ==
    IF url.port # Absent THEN url.port[1]
    ELSE IF url.scheme = "https" THEN 443 ELSE 80

(***************************************************************************)
(* Names derived from props.envName.                                       *)
(***************************************************************************)
VpcName(envName) == "dd-agent-vpc-" \o envName
\* Mutant: the cluster name does not carry the environment name.
ClusterNameShared(envName) == "dd-agent-cluster"
ClusterName(envName) == "dd-agent-cluster-" \o envName
TaskFamily(envName) == "dd-agent-poc-task-" \o envName
\* Mutant: the service named like the cluster.
ServiceNameAsCluster(envName) == "dd-agent-cluster-" \o envName
ServiceName(envName) == "dd-agent-service-" \o envName
\* Mutant: the load balancer named with another prefix.
LoadBalancerNameOther(envName) == "dd-agent-lb-" \o envName
LoadBalancerName(envName) == "dd-agent-alb-" \o envName

(***************************************************************************)
(* Literals of the constructor.                                            *)
(***************************************************************************)
MaxAzs == 2
SubnetCidrMask == 24
\* Mutant: one NAT gateway per zone.
NatGatewaysTwo == 1 + 1
NatGateways == 1
VpcCidr == [a |-> 10, b |-> 0, c |-> 0, d |-> 0, mask |-> 16]
AnyIpv4 == "0.0.0.0/0"
HealthCheckStartPeriod == 3
\* 'curl -f http://localhost/health || exit 1': the URL the container health check probes
HealthCheckUrl == [scheme |-> "http", host |-> "localhost", port |-> Absent, path |-> "/health"]
\* addContainer passes no environment: PORT is not set in the container
ContainerPortEnv == Absent
\* Mutant: the container port mapped to 8080.
ContainerPortOther == 8000 + 80
ContainerPort == 80
\* Mutant: the service starts with two tasks.
DesiredCountTwo == 1 + 1
DesiredCount == 1
AssignPublicIp == FALSE
\* Mutant: the service placed in the public subnets.
ServiceSubnetTypePublic == "PUBLIC"
ServiceSubnetType == "PRIVATE_WITH_EGRESS"
AlbSubnetType == "PUBLIC"
TargetGroupPort == 80
HealthCheckPath == "/health"
HealthCheckInterval == 30
HealthCheckTimeout == 5
HealthyThresholdCount == 2
UnhealthyThresholdCount == 2
AlbIngressPort == 80
ServiceIngressPort == 80
ListenerPort == 80
DefaultMaxTaskCount == 10
DefaultTargetRequestCountPerTask == 1000
MinCapacity == 1
ScaleInCooldown == 60
\* Mutant: a shorter scale-out cooldown.
ScaleOutCooldownShort == 60 \div 2
ScaleOutCooldown == 60

\* props.maxTaskCount ?? 10
MaxTaskCountOf(p) ==
    IF p.maxTaskCount = Absent THEN DefaultMaxTaskCount ELSE p.maxTaskCount[1]

\* props.targetRequestCountPerTask ?? 1000
TargetRequestCountOf(p) ==
    IF p.targetRequestCountPerTask = Absent
    THEN DefaultTargetRequestCountPerTask
    ELSE p.targetRequestCountPerTask[1]

(***************************************************************************)
(* The statements of the constructor, in source order.                     *)
(***************************************************************************)
\* Mutant: the scaling configuration moved before the load balancer.
StepOrderScalingFirst ==
    << "Vpc", "ECSCluster", "TaskDef", "AppImageAsset", "AppContainer",
       "PortMappings", "ServiceSecurityGroup", "Service", "AlbTargetGroup",
       "AttachTargetGroup", "AlbSecurityGroup", "AlbIngress", "ServiceIngress",
       "AutoScaleTaskCount", "ScaleOnRequestCount", "Alb", "HttpListener",
       "OutAlbDnsName", "OutClusterName", "OutServiceName", "OutVpcId" >>

\* Mutant: the scaling configuration moved before the target group.
StepOrderScalingBeforeTargetGroup ==
    << "Vpc", "ECSCluster", "TaskDef", "AppImageAsset", "AppContainer",
       "PortMappings", "ServiceSecurityGroup", "Service",
       "AutoScaleTaskCount", "ScaleOnRequestCount", "AlbTargetGroup",
       "AttachTargetGroup", "AlbSecurityGroup", "AlbIngress", "ServiceIngress",
       "Alb", "HttpListener",
       "OutAlbDnsName", "OutClusterName", "OutServiceName", "OutVpcId" >>

StepOrder ==
    << "Vpc", "ECSCluster", "TaskDef", "AppImageAsset", "AppContainer",
       "PortMappings", "ServiceSecurityGroup", "Service", "AlbTargetGroup",
       "AttachTargetGroup", "AlbSecurityGroup", "AlbIngress", "ServiceIngress",
       "Alb", "HttpListener", "AutoScaleTaskCount", "ScaleOnRequestCount",
       "OutAlbDnsName", "OutClusterName", "OutServiceName", "OutVpcId" >>

Steps == {StepOrder[k] : k \in 1..Len(StepOrder)}

IndexOf(s) == CHOOSE k \in 1..Len(StepOrder) : StepOrder[k] = s

\* The statement after s; "returned" after the last one.
NextStep(s) ==
    IF IndexOf(s) = Len(StepOrder) THEN "returned" ELSE StepOrder[IndexOf(s) + 1]

NoError == "none"


(***************************************************************************)
(* Inputs and the state after start-up.                                    *)
(***************************************************************************)
PropsOf(id, envName, maxTaskCount, target) ==
    [ id |-> id, envName |-> envName, maxTaskCount |-> maxTaskCount,
      targetRequestCountPerTask |-> target ]

\* The test calls the constructor directly, with any props.
DirectProps ==
    { PropsOf(TestStackId, e, m, t) :
        e \in EnvNames,
        m \in OptionalFrom(-1 .. MaxTaskCountInput),
        t \in OptionalFrom(-1 .. MaxTargetInput) }

\* The entry point passes envName and leaves the scaling props undefined.
EntryProps ==
    { PropsOf(StackId(EntryEnvName(v)), EntryEnvName(v), Absent, Absent) : v \in EnvNames }

IdleProps == PropsOf("", "", Absent, Absent)

Fresh(p, d, at) ==
    /\ props = p
    /\ imageDir = d
    /\ pc = at
    /\ error = [i \in Apps |-> NoError]
    /\ tree = [i \in Apps |-> <<>>]
    /\ order = [i \in Apps |-> <<>>]
    /\ outputs = [i \in Apps |-> <<>>]
    /\ desired = [i \in Apps |-> 0]
    /\ observed = [i \in Apps |-> 0]
    /\ cooling = [i \in Apps |-> 0]
    /\ sinceLast = [i \in Apps |-> -1]
    /\ lastGap = [i \in Apps |-> -1]

\* One invocation of the constructor (invocation 2 never starts).
Init ==
    \E p \in DirectProps, d \in BOOLEAN :
        Fresh([i \in Apps |-> IF i = 1 THEN p ELSE IdleProps],
              [i \in Apps |-> IF i = 1 THEN d ELSE FALSE],
              [i \in Apps |-> IF i = 1 THEN StepOrder[1] ELSE "off"])

\* Two processes started from the entry point, one per ENV_NAME value.
InitPair ==
    \E p \in [Apps -> EntryProps] :
        Fresh(p, [i \in Apps |-> TRUE], [i \in Apps |-> StepOrder[1]])

(***************************************************************************)
(* Control flow of one statement.                                          *)
(***************************************************************************)
runtime == <<desired, observed, cooling, sinceLast, lastGap>>

\* Statement s of invocation i returns normally.
Completes(i, s) ==
    /\ pc[i] = s
    /\ pc' = [pc EXCEPT ![i] = NextStep(s)]
    /\ order' = [order EXCEPT ![i] = Append(@, s)]
    /\ UNCHANGED <<props, imageDir, error>>

\* Mutant: the exception is caught and recorded, and the constructor carries on
\* with the next statement.
AbortsSwallowed(i, s) ==
    /\ pc[i] = s
    /\ pc' = [pc EXCEPT ![i] = NextStep(s)]
    /\ error' = [error EXCEPT ![i] = s]
    /\ UNCHANGED <<props, imageDir, tree, order, outputs, runtime>>

\* The call made by statement s of invocation i throws: the exception leaves
\* the constructor, no later statement runs.
Aborts(i, s) ==
    /\ pc[i] = s
    /\ pc' = [pc EXCEPT ![i] = "thrown"]
    /\ error' = [error EXCEPT ![i] = s]
    /\ UNCHANGED <<props, imageDir, tree, order, outputs, runtime>>

\* new <Construct>(this, id, rec)
Create(i, id, rec) ==
    LET t == tree[i] IN tree' = [tree EXCEPT ![i] = t @@ (id :> rec)]

Created(i) == DOMAIN tree[i]

(***************************************************************************)
(* The statements of the DdAgentStack constructor.                         *)
(***************************************************************************)
(***************************************************************************)
(* The network a Vpc construct lays out for its configuration: one subnet  *)
(* per subnetConfiguration entry and zone, their blocks carved one after   *)
(* another from the VPC block, an internet gateway for the public subnets  *)
(* and NAT gateways, placed in public subnets, for the private ones.       *)
(***************************************************************************)
RECURSIVE Pow2(_)
Pow2(n) == IF n = 0 THEN 1 ELSE 2 * Pow2(n - 1)

\* The first address of a block, as a number.
CidrStart(c) == ((c.a * 256 + c.b) * 256 + c.c) * 256 + c.d

CidrSize(mask) == Pow2(32 - mask)

SubnetConfiguration ==
    << [name |-> "public", subnetType |-> "PUBLIC", cidrMask |-> SubnetCidrMask],
       [name |-> "private", subnetType |-> "PRIVATE_WITH_EGRESS",
        cidrMask |-> SubnetCidrMask] >>

\* The zones that host a NAT gateway (in their public subnet).
NatZones(zones) == 1 .. Min(NatGateways, zones)

\* The default route (0.0.0.0/0) of a subnet of the given type in zone z.
DefaultRoute(subnetType, z, zones) ==
    IF subnetType = "PUBLIC"
    THEN [via |-> "InternetGateway", natZone |-> 0]
    ELSE [via |-> "NatGateway",
          natZone |-> ((z - 1) % Cardinality(NatZones(zones))) + 1]

\* Entry g of the configuration in zone z takes the next free block.
SubnetsOf(zones) ==
    { LET conf == SubnetConfiguration[g]
          k == (g - 1) * zones + (z - 1)
      IN  [ name |-> conf.name,
            subnetType |-> conf.subnetType,
            zone |-> z,
            start |-> CidrStart(VpcCidr) + k * CidrSize(conf.cidrMask),
            mask |-> conf.cidrMask,
            defaultRoute |-> DefaultRoute(conf.subnetType, z, zones) ] :
      g \in 1 .. Len(SubnetConfiguration), z \in 1 .. zones }

\* 1. VPC: it spans at most maxAzs of the zones its region offers.
Vpc(i) ==
    \E available \in 1 .. MaxZonesAvailable :
        LET zones == Min(MaxAzs, available) IN
        /\ Completes(i, "Vpc")
        /\ Create(i, "Vpc",
             [ kind |-> "Vpc",
               name |-> VpcName(props[i].envName),
               cidr |-> VpcCidr,
               maxAzs |-> MaxAzs,
               subnetConfiguration |-> SubnetConfiguration,
               natGateways |-> NatGateways,
               zones |-> zones,
               subnets |-> SubnetsOf(zones),
               natZones |-> NatZones(zones) ])
        /\ UNCHANGED <<outputs, runtime>>

\* 2. ECS Cluster
ECSCluster(i) ==
    /\ Completes(i, "ECSCluster")
    /\ Create(i, "ECSCluster",
         [ kind |-> "Cluster",
           vpc |-> "Vpc",
           containerInsights |-> "ENABLED",
           name |-> ClusterName(props[i].envName) ])
    /\ UNCHANGED <<outputs, runtime>>

\* 3. Task definition
TaskDef(i) ==
    /\ Completes(i, "TaskDef")
    /\ Create(i, "TaskDef",
         [ kind |-> "FargateTaskDefinition",
           name |-> TaskFamily(props[i].envName),
           containers |-> {} ])
    /\ UNCHANGED <<outputs, runtime>>

\* 4. Application image: DockerImageAsset needs its build directory to exist.
AppImageAsset(i) ==
    IF imageDir[i]
    THEN /\ Completes(i, "AppImageAsset")
         /\ Create(i, "AppImageAsset", [ kind |-> "DockerImageAsset", directory |-> ".." ])
         /\ UNCHANGED <<outputs, runtime>>
    ELSE Aborts(i, "AppImageAsset")

\* taskDef.addContainer('AppContainer', ...), with its log driver
AppContainer(i) ==
    /\ Completes(i, "AppContainer")
    /\ Create(i, "AppContainer",
         [ kind |-> "ContainerDefinition",
           taskDefinition |-> "TaskDef",
           image |-> "AppImageAsset",
           containerName |-> "app",
           healthCheckCommand |-> <<"CMD-SHELL", "curl -f http://localhost/health || exit 1">>,
           healthCheckUrl |-> HealthCheckUrl,
           portEnv |-> ContainerPortEnv,
           startPeriod |-> HealthCheckStartPeriod,
           streamPrefix |-> "demo-app",
           portMappings |-> {} ])
    /\ UNCHANGED <<outputs, runtime>>

\* appContainer.addPortMappings({ containerPort: 80, protocol: Protocol.TCP })
PortMappings(i) ==
    /\ Completes(i, "PortMappings")
    /\ tree' = [tree EXCEPT ![i]["AppContainer"].portMappings =
                  @ \cup {[containerPort |-> ContainerPort, protocol |-> "tcp"]}]
    /\ UNCHANGED <<outputs, runtime>>

\* 5. ECS Fargate Service: its security group ...
ServiceSecurityGroup(i) ==
    /\ Completes(i, "ServiceSecurityGroup")
    /\ Create(i, "ServiceSecurityGroup",
         [ kind |-> "SecurityGroup",
           vpc |-> "Vpc",
           allowAllOutbound |-> TRUE,
           description |-> "SG for Fargate service",
           ingress |-> {} ])
    /\ UNCHANGED <<outputs, runtime>>

\* ... and the service itself
Service(i) ==
    /\ Completes(i, "Service")
    /\ Create(i, "Service",
         [ kind |-> "FargateService",
           cluster |-> "ECSCluster",
           taskDefinition |-> "TaskDef",
           desiredCount |-> DesiredCount,
           assignPublicIp |-> AssignPublicIp,
           securityGroups |-> {"ServiceSecurityGroup"},
           vpcSubnets |-> ServiceSubnetType,
           name |-> ServiceName(props[i].envName) ])
    /\ desired' = [desired EXCEPT ![i] = DesiredCount]
    /\ UNCHANGED <<outputs, observed, cooling, sinceLast, lastGap>>

AlbTargetGroup(i) ==
    /\ Completes(i, "AlbTargetGroup")
    /\ Create(i, "AlbTargetGroup",
         [ kind |-> "ApplicationTargetGroup",
           vpc |-> "Vpc",
           protocol |-> "HTTP",
           port |-> TargetGroupPort,
           targetType |-> "IP",
           healthCheck |->
             [ path |-> HealthCheckPath,
               interval |-> HealthCheckInterval,
               timeout |-> HealthCheckTimeout,
               healthyThresholdCount |-> HealthyThresholdCount,
               unhealthyThresholdCount |-> UnhealthyThresholdCount ],
           targets |-> {} ])
    /\ UNCHANGED <<outputs, runtime>>

\* service.attachToApplicationTargetGroup(tg)
AttachTargetGroup(i) ==
    /\ Completes(i, "AttachTargetGroup")
    /\ tree' = [tree EXCEPT ![i]["AlbTargetGroup"].targets = @ \cup {"Service"}]
    /\ UNCHANGED <<outputs, runtime>>

\* 6. Load Balancer: its security group ...
AlbSecurityGroup(i) ==
    /\ Completes(i, "AlbSecurityGroup")
    /\ Create(i, "AlbSecurityGroup",
         [ kind |-> "SecurityGroup",
           vpc |-> "Vpc",
           allowAllOutbound |-> TRUE,
           description |-> "SG for ALB",
           ingress |-> {} ])
    /\ UNCHANGED <<outputs, runtime>>

\* albSg.addIngressRule(Peer.anyIpv4(), Port.tcp(80), ...)
AlbIngress(i) ==
    /\ Completes(i, "AlbIngress")
    /\ tree' = [tree EXCEPT ![i]["AlbSecurityGroup"].ingress =
                  @ \cup {[peer |-> AnyIpv4, protocol |-> "tcp", port |-> AlbIngressPort]}]
    /\ UNCHANGED <<outputs, runtime>>

\* Mutant: the service group's rule opened to the internet instead of the edge group.
ServiceIngressFromAnywhere(i) ==
    /\ Completes(i, "ServiceIngress")
    /\ tree' = [tree EXCEPT ![i]["ServiceSecurityGroup"].ingress =
                  @ \cup {[peer |-> AnyIpv4, protocol |-> "tcp", port |-> 80]}]
    /\ UNCHANGED <<outputs, runtime>>

\* serviceSg.addIngressRule(albSg, Port.tcp(80), ...)
ServiceIngress(i) ==
    /\ Completes(i, "ServiceIngress")
    /\ tree' = [tree EXCEPT ![i]["ServiceSecurityGroup"].ingress =
                  @ \cup {[peer |-> "AlbSecurityGroup", protocol |-> "tcp",
                           port |-> ServiceIngressPort]}]
    /\ UNCHANGED <<outputs, runtime>>

\* ... the load balancer ...
Alb(i) ==
    /\ Completes(i, "Alb")
    /\ Create(i, "Alb",
         [ kind |-> "ApplicationLoadBalancer",
           vpc |-> "Vpc",
           internetFacing |-> TRUE,
           securityGroup |-> "AlbSecurityGroup",
           name |-> LoadBalancerName(props[i].envName),
           vpcSubnets |-> AlbSubnetType ])
    /\ UNCHANGED <<outputs, runtime>>

\* ... and its listener
HttpListener(i) ==
    /\ Completes(i, "HttpListener")
    /\ Create(i, "HttpListener",
         [ kind |-> "ApplicationListener",
           loadBalancer |-> "Alb",
           port |-> ListenerPort,
           protocol |-> "HTTP",
           defaultAction |-> [type |-> "forward", targetGroups |-> <<"AlbTargetGroup">>] ])
    /\ UNCHANGED <<outputs, runtime>>

\* 7. Auto Scaling Configuration: service.autoScaleTaskCount({ minCapacity: 1,
\* maxCapacity: maxTaskCount }).  The scalable target it constructs rejects a
\* capacity range whose maximum is negative or below its minimum (RangeError).
AutoScaleTaskCount(i) ==
    LET maxTaskCount == MaxTaskCountOf(props[i]) IN
    IF maxTaskCount < 0 \/ maxTaskCount < MinCapacity
    THEN Aborts(i, "AutoScaleTaskCount")
    ELSE /\ Completes(i, "AutoScaleTaskCount")
         /\ Create(i, "TaskCount",
              [ kind |-> "ScalableTaskCount",
                service |-> "Service",
                minCapacity |-> MinCapacity,
                maxCapacity |-> maxTaskCount ])
         /\ UNCHANGED <<outputs, runtime>>

\* scalableTarget.scaleOnRequestCount('AlbRequestCountScaling', ...)
ScaleOnRequestCount(i) ==
    /\ Completes(i, "ScaleOnRequestCount")
    /\ Create(i, "AlbRequestCountScaling",
         [ kind |-> "TargetTrackingScalingPolicy",
           scalableTarget |-> "TaskCount",
           requestsPerTarget |-> TargetRequestCountOf(props[i]),
           targetGroup |-> "AlbTargetGroup",
           scaleInCooldown |-> ScaleInCooldown,
           scaleOutCooldown |-> ScaleOutCooldown ])
    /\ UNCHANGED <<outputs, runtime>>

\* new CfnOutput(this, id, { value })
Output(i, s, id, value) ==
    /\ Completes(i, s)
    /\ LET o == outputs[i] IN outputs' = [outputs EXCEPT ![i] = o @@ (id :> value)]
    /\ UNCHANGED <<tree, runtime>>

OutAlbDnsName(i) ==
    Output(i, "OutAlbDnsName", "AlbDnsName", [of |-> "Alb", attr |-> "loadBalancerDnsName"])

OutClusterName(i) ==
    Output(i, "OutClusterName", "ClusterName", [of |-> "ECSCluster", attr |-> "clusterName"])

OutServiceName(i) ==
    Output(i, "OutServiceName", "ServiceName", [of |-> "Service", attr |-> "serviceName"])

OutVpcId(i) ==
    Output(i, "OutVpcId", "VpcId", [of |-> "Vpc", attr |-> "vpcId"])

\* Any of the constructor's calls may throw; nothing in the constructor
\* catches, so the exception reaches the caller of `new DdAgentStack`.
Throws(i) == \E s \in Steps : Aborts(i, s)

\* What the caller of the constructor has in hand: the stack's outputs once the
\* constructor returned, nothing when it threw or is still running.
Exposed(i) == IF pc[i] = "returned" THEN DOMAIN outputs[i] ELSE {}

OutputIds == {"AlbDnsName", "ClusterName", "ServiceName", "VpcId"}

Assemble(i) ==
    \/ Vpc(i) \/ ECSCluster(i) \/ TaskDef(i) \/ AppImageAsset(i) \/ AppContainer(i)
    \/ PortMappings(i) \/ ServiceSecurityGroup(i) \/ Service(i) \/ AlbTargetGroup(i)
    \/ AttachTargetGroup(i) \/ AlbSecurityGroup(i) \/ AlbIngress(i) \/ ServiceIngress(i)
    \/ Alb(i) \/ HttpListener(i) \/ AutoScaleTaskCount(i) \/ ScaleOnRequestCount(i)
    \/ OutAlbDnsName(i) \/ OutClusterName(i) \/ OutServiceName(i) \/ OutVpcId(i)
    \/ Throws(i)

(***************************************************************************)
(* The deployed scaling policy: a controller that moves the desired task   *)
(* count toward ceil(requests / requestsPerTarget), clamped to the         *)
(* scalable target's capacity range, and that takes no scaling action      *)
(* while the cooldown of the previous one runs.                            *)
(***************************************************************************)
Clamp(n, lo, hi) == Max(lo, Min(n, hi))

Wanted(i, requests) ==
    LET target == tree[i]["AlbRequestCountScaling"].requestsPerTarget
        lo == tree[i]["TaskCount"].minCapacity
        hi == tree[i]["TaskCount"].maxCapacity
        raw == IF target > 0 THEN (requests + target - 1) \div target
               ELSE IF requests > 0 THEN hi ELSE lo
    IN  Clamp(raw, lo, hi)

CooldownCap == Max(ScaleInCooldown, ScaleOutCooldown)

\* A new request-count sample for the target group arrives.
Observe(i, requests) ==
    /\ pc[i] = "returned"
    /\ observed[i] # requests
    /\ observed' = [observed EXCEPT ![i] = requests]
    /\ UNCHANGED <<props, imageDir, pc, error, tree, order, outputs, desired, cooling,
                   sinceLast, lastGap>>

ScalingAction(i, n, cooldown) ==
    /\ desired' = [desired EXCEPT ![i] = n]
    /\ cooling' = [cooling EXCEPT ![i] = cooldown]
    /\ lastGap' = [lastGap EXCEPT ![i] = sinceLast[i]]
    /\ sinceLast' = [sinceLast EXCEPT ![i] = 0]
    /\ UNCHANGED <<props, imageDir, pc, error, tree, order, outputs, observed>>

ScaleOut(i) ==
    /\ pc[i] = "returned"
    /\ cooling[i] = 0
    /\ Wanted(i, observed[i]) > desired[i]
    /\ ScalingAction(i, Wanted(i, observed[i]),
                     tree[i]["AlbRequestCountScaling"].scaleOutCooldown)

ScaleIn(i) ==
    /\ pc[i] = "returned"
    /\ cooling[i] = 0
    /\ Wanted(i, observed[i]) < desired[i]
    /\ ScalingAction(i, Wanted(i, observed[i]),
                     tree[i]["AlbRequestCountScaling"].scaleInCooldown)

\* TickSeconds of wall-clock time pass.
Tick(i) ==
    /\ pc[i] = "returned"
    /\ cooling[i] > 0 \/ sinceLast[i] \in 0 .. (CooldownCap - 1)
    /\ cooling' = [cooling EXCEPT ![i] = Max(0, @ - TickSeconds)]
    /\ sinceLast' = [sinceLast EXCEPT ![i] =
                       IF @ < 0 THEN @ ELSE Min(CooldownCap, @ + TickSeconds)]
    /\ UNCHANGED <<props, imageDir, pc, error, tree, order, outputs, desired, observed,
                   lastGap>>

Scale(i) ==
    \/ \E requests \in 0 .. MaxRequests : Observe(i, requests)
    \/ ScaleOut(i)
    \/ ScaleIn(i)
    \/ Tick(i)

(***************************************************************************)
(* Specifications.                                                         *)
(***************************************************************************)
Next == \E i \in Apps : Assemble(i) \/ Scale(i)

Spec == Init /\ [][Next]_vars

\* Two invocations, interleaved statement by statement.
NextPair == \E i \in Apps : Assemble(i)

SpecPair == InitPair /\ [][NextPair]_vars

(***************************************************************************)
(* Properties.                                                             *)
(***************************************************************************)
IngressOf(i, sg) == IF sg \in Created(i) THEN tree[i][sg].ingress ELSE {}

SecurityGroups(i) == {c \in Created(i) : tree[i][c].kind = "SecurityGroup"}

\* C1: every inbound rule of the service security group has the edge (ALB)
\* security group as its source, never 0.0.0.0/0; the edge group is the only
\* group with an inbound rule from 0.0.0.0/0, and that rule is TCP port 80 only.
\* In an assembled topology both rules are present.
C1_ServiceAcceptsOnlyEdge ==
    \A i \in Apps :
        /\ \A r \in IngressOf(i, "ServiceSecurityGroup") :
               r.peer = "AlbSecurityGroup" /\ r.peer # "0.0.0.0/0"
        /\ \A sg \in SecurityGroups(i) : \A r \in tree[i][sg].ingress :
               r.peer = "0.0.0.0/0" =>
                   sg = "AlbSecurityGroup" /\ r.protocol = "tcp" /\ r.port = 80
        /\ pc[i] = "returned" =>
               /\ IngressOf(i, "AlbSecurityGroup") =
                      {[peer |-> "0.0.0.0/0", protocol |-> "tcp", port |-> 80]}
               /\ IngressOf(i, "ServiceSecurityGroup") # {}

C1_Witness ==
    /\ pc[1] = "returned"
    /\ \E r \in IngressOf(1, "ServiceSecurityGroup") : r.peer = "AlbSecurityGroup"
    /\ \E r \in IngressOf(1, "AlbSecurityGroup") : r.peer = "0.0.0.0/0"

\* C2: once the scalable target is registered, the service's desired task count
\* stays within [minCapacity, maxCapacity] whatever request volumes are
\* observed; with minCapacity = maxCapacity = 1 it never exceeds 1.
C2_DesiredWithinBounds ==
    \A i \in Apps :
        "TaskCount" \in Created(i) =>
            /\ tree[i]["TaskCount"].minCapacity <= desired[i]
            /\ desired[i] <= tree[i]["TaskCount"].maxCapacity
            /\ (MaxTaskCountOf(props[i]) = 1 => desired[i] = 1)
            /\ tree[i]["TaskCount"].maxCapacity = MaxTaskCountOf(props[i])

\* The observed volume asks for more tasks than the maximum, the policy has
\* scaled, and the desired count sits at the maximum.
C2_Witness ==
    /\ pc[1] = "returned"
    /\ sinceLast[1] >= 0
    /\ tree[1]["AlbRequestCountScaling"].requestsPerTarget = 1
    /\ observed[1] > tree[1]["TaskCount"].maxCapacity
    /\ desired[1] = tree[1]["TaskCount"].maxCapacity
    /\ desired[1] > 1

\* C3: two consecutive scaling actions (scale-in or scale-out) are never
\* closer together than the 60 second cooldown window.
C3_CooldownBetweenActions ==
    \A i \in Apps : lastGap[i] >= 0 => lastGap[i] >= 60

\* [C3, as a step property] a scaling action is taken only when none was taken
\* in the 60 seconds before it.
C3_NoActionInsideCooldown ==
    [][\A i \in Apps :
          (desired'[i] # desired[i] /\ sinceLast[i] >= 0) => sinceLast[i] >= 60]_vars

C3_Witness ==
    /\ lastGap[1] >= 60
    /\ desired[1] > 1

C4_NothingAfterFailure ==
    [][\A i \in Apps :
          pc[i] = "thrown" =>
              /\ pc'[i] = "thrown"
              /\ tree'[i] = tree[i]
              /\ outputs'[i] = outputs[i]
              /\ error'[i] = error[i]]_vars

UsesDefaults(p) == p.maxTaskCount = Absent /\ p.targetRequestCountPerTask = Absent

LoadBalancers(i) == {c \in Created(i) : tree[i][c].kind = "ApplicationLoadBalancer"}

Listeners(i) == {c \in Created(i) : tree[i][c].kind = "ApplicationListener"}

\* C5: with every optional parameter left at its default, the topology
\* assembled for environment e has a network with block 10.0.0.0/16, a cluster
\* dd-agent-cluster-<e>, a service dd-agent-service-<e> with desired count 1,
\* exactly one load balancer, named dd-agent-alb-<e>, internet-facing and
\* listening on port 80, and exactly 2 security groups.
C5_DefaultTopology ==
    \A i \in Apps :
        (pc[i] = "returned" /\ UsesDefaults(props[i])) =>
            LET e == props[i].envName IN
            /\ tree[i]["Vpc"].cidr = [a |-> 10, b |-> 0, c |-> 0, d |-> 0, mask |-> 16]
            /\ tree[i]["ECSCluster"].name = "dd-agent-cluster-" \o e
            /\ tree[i]["Service"].name = "dd-agent-service-" \o e
            /\ tree[i]["Service"].desiredCount = 1
            /\ LoadBalancers(i) = {"Alb"}
            /\ tree[i]["Alb"].name = "dd-agent-alb-" \o e
            /\ tree[i]["Alb"].internetFacing
            /\ Listeners(i) = {"HttpListener"}
            /\ tree[i]["HttpListener"].loadBalancer = "Alb"
            /\ tree[i]["HttpListener"].port = 80
            /\ Cardinality(SecurityGroups(i)) = 2

C5_Witness ==
    /\ pc[1] = "returned"
    /\ UsesDefaults(props[1])
    /\ props[1].envName = "a-"
    /\ tree[1]["Alb"].name = "dd-agent-alb-a-"

\* The constructs that carry a name derived from the environment name.
Named == {"Vpc", "ECSCluster", "TaskDef", "Service", "Alb"}

NameOf(c, envName) ==
    CASE c = "Vpc" -> VpcName(envName)
      [] c = "ECSCluster" -> ClusterName(envName)
      [] c = "TaskDef" -> TaskFamily(envName)
      [] c = "Service" -> ServiceName(envName)
      [] c = "Alb" -> LoadBalancerName(envName)

\* C6: for a non-empty environment name, the names given to the network, the
\* cluster, the task family, the service and the load balancer of one assembly
\* are pairwise distinct, and each is what deriving it again yields.
C6_NamesDistinct ==
    \A i \in Apps :
        props[i].envName # "" =>
            /\ \A c1, c2 \in Named \cap Created(i) :
                   c1 # c2 => tree[i][c1].name # tree[i][c2].name
            /\ \A c \in Named \cap Created(i) :
                   tree[i][c].name = NameOf(c, props[i].envName)

C6_Witness ==
    /\ pc[1] = "returned"
    /\ props[1].envName # ""
    /\ Named \subseteq Created(1)
    /\ Cardinality({tree[1][c].name : c \in Named}) = 5

\* Every name invocation i has given out: its stack id and its named constructs.
Names(i) == {props[i].id} \cup {tree[i][c].name : c \in Named \cap Created(i)}

\* C7: two invocations for distinct environment names, interleaved in any way,
\* derive disjoint sets of names, and a step of one changes nothing of the
\* other: each builds the topology of its own props.
C7_IndependentEnvironments ==
    /\ [](\A i, j \in Apps :
            props[i].envName # props[j].envName => Names(i) \cap Names(j) = {})
    /\ [](\A i \in Apps : \A c \in Named \cap Created(i) :
            tree[i][c].name = NameOf(c, props[i].envName))
    /\ [][\A i \in Apps :
            pc'[i] = pc[i] =>
                /\ tree'[i] = tree[i]
                /\ outputs'[i] = outputs[i]
                /\ order'[i] = order[i]
                /\ error'[i] = error[i]
                /\ props'[i] = props[i]]_vars

\* [C7, state part] the names of two environments never meet.
C7_NamesDisjoint ==
    \A i, j \in Apps :
        props[i].envName # props[j].envName => Names(i) \cap Names(j) = {}

\* Both invocations have returned, for different environments.
C7_Witness ==
    /\ pc[1] = "returned"
    /\ pc[2] = "returned"
    /\ props[1].envName = "dev"
    /\ props[2].envName = "a"
    /\ Cardinality(Names(1) \cup Names(2)) = 12

\* C8 (as claimed): when the workload is absent (its image directory does not
\* exist), the failure comes with zero resources created.
C8_WorkloadFailureBeforeAnyResource ==
    \A i \in Apps :
        (~imageDir[i] /\ pc[i] = "thrown" /\ error[i] = "AppImageAsset") =>
            Created(i) = {} /\ order[i] = <<>>

InvalidScalingBounds(p) ==
    MaxTaskCountOf(p) < MinCapacity \/ TargetRequestCountOf(p) <= 0

\* C9 (as claimed): with maxInstances < minInstances or
\* requestsPerInstanceTarget <= 0, neither the scaling target nor the scaling
\* policy is ever created.
C9_NoPolicyWithInvalidBounds ==
    \A i \in Apps :
        InvalidScalingBounds(props[i]) =>
            /\ "TaskCount" \notin Created(i)
            /\ "AlbRequestCountScaling" \notin Created(i)
            /\ pc[i] # "returned"

\* The stage of each statement in the order Network, Security boundary,
\* Compute service, Target group / Load balancer, Scaling policy, outputs.
ClaimedStage(s) ==
    CASE s = "Vpc" -> 1
      [] s \in {"ServiceSecurityGroup", "AlbSecurityGroup", "AlbIngress", "ServiceIngress"} -> 2
      [] s \in {"ECSCluster", "TaskDef", "AppImageAsset", "AppContainer", "PortMappings",
                "Service"} -> 3
      [] s \in {"AlbTargetGroup", "AttachTargetGroup", "Alb", "HttpListener"} -> 4
      [] s \in {"AutoScaleTaskCount", "ScaleOnRequestCount"} -> 5
      [] OTHER -> 6

\* The stages in the order Network; Compute service with the service group;
\* Target group; edge group and both inbound rules; Load balancer; Scaling
\* policy; outputs.
AmendedStage(s) ==
    CASE s = "Vpc" -> 1
      [] s \in {"ECSCluster", "TaskDef", "AppImageAsset", "AppContainer", "PortMappings",
                "ServiceSecurityGroup", "Service"} -> 2
      [] s \in {"AlbTargetGroup", "AttachTargetGroup"} -> 3
      [] s \in {"AlbSecurityGroup", "AlbIngress", "ServiceIngress"} -> 4
      [] s \in {"Alb", "HttpListener"} -> 5
      [] s \in {"AutoScaleTaskCount", "ScaleOnRequestCount"} -> 6
      [] OTHER -> 7

Executed(i) == {order[i][k] : k \in 1 .. Len(order[i])}

Subnets(i) == IF "Vpc" \in Created(i) THEN tree[i]["Vpc"].subnets ELSE {}

SubnetsOfType(i, subnetType) == {s \in Subnets(i) : s.subnetType = subnetType}

\* The last address of a subnet's block.
SubnetEnd(s) == s.start + CidrSize(s.mask) - 1

\* C11: with 2 availability zones the network has exactly 4 subnets, 2 public
\* and 2 private-with-egress, one of each per zone, every one a /24 inside
\* 10.0.0.0/16, no two address ranges overlapping, and exactly one NAT gateway.
C11_TwoZoneNetwork ==
    \A i \in Apps :
        ("Vpc" \in Created(i) /\ tree[i]["Vpc"].zones = 2) =>
            /\ Cardinality(Subnets(i)) = 4
            /\ Cardinality(SubnetsOfType(i, "PUBLIC")) = 2
            /\ Cardinality(SubnetsOfType(i, "PRIVATE_WITH_EGRESS")) = 2
            /\ \A z \in 1 .. 2 : \A t \in {"PUBLIC", "PRIVATE_WITH_EGRESS"} :
                   Cardinality({s \in SubnetsOfType(i, t) : s.zone = z}) = 1
            /\ \A s \in Subnets(i) :
                   /\ s.mask = 24
                   /\ s.start % 256 = 0
                   /\ s.start >= 10 * 16777216
                   /\ SubnetEnd(s) <= 10 * 16777216 + 65535
            /\ \A s, t \in Subnets(i) :
                   s # t => SubnetEnd(s) < t.start \/ SubnetEnd(t) < s.start
            /\ Cardinality(tree[i]["Vpc"].natZones) = 1

\* A two-zone network whose four blocks are 10.0.0.0/24 .. 10.0.3.0/24.
C11_Witness ==
    /\ pc[1] = "returned"
    /\ tree[1]["Vpc"].zones = 2
    /\ {s.start - 10 * 16777216 : s \in Subnets(1)} = {0, 256, 512, 768}

\* The subnets construct c is placed in: those of the type it selects.
PlacedIn(i, c) == SubnetsOfType(i, tree[i][c].vpcSubnets)

\* C12: no private subnet routes to the internet directly: its default route
\* goes through the one shared NAT gateway, which sits in a public subnet;
\* public subnets route through the internet gateway; the service is placed
\* only in private subnets, without a public address, and the load balancer
\* only in public subnets.
C12_PrivateSubnetsBehindNat ==
    \A i \in Apps :
        /\ \A s \in SubnetsOfType(i, "PRIVATE_WITH_EGRESS") :
               /\ s.defaultRoute.via = "NatGateway"
               /\ s.defaultRoute.natZone \in tree[i]["Vpc"].natZones
               /\ \E n \in SubnetsOfType(i, "PUBLIC") : n.zone = s.defaultRoute.natZone
        /\ Cardinality({s.defaultRoute.natZone :
                           s \in SubnetsOfType(i, "PRIVATE_WITH_EGRESS")}) <= 1
        /\ \A s \in SubnetsOfType(i, "PUBLIC") : s.defaultRoute.via = "InternetGateway"
        /\ "Service" \in Created(i) =>
               /\ PlacedIn(i, "Service") # {}
               /\ PlacedIn(i, "Service") \subseteq SubnetsOfType(i, "PRIVATE_WITH_EGRESS")
               /\ ~tree[i]["Service"].assignPublicIp
        /\ "Alb" \in Created(i) =>
               /\ PlacedIn(i, "Alb") # {}
               /\ PlacedIn(i, "Alb") \subseteq SubnetsOfType(i, "PUBLIC")

\* An assembled two-zone topology: both private subnets leave through the NAT
\* gateway of zone 1, and the service sits in both of them.
C12_Witness ==
    /\ pc[1] = "returned"
    /\ Cardinality(PlacedIn(1, "Service")) = 2
    /\ \A s \in PlacedIn(1, "Service") :
           s.defaultRoute = [via |-> "NatGateway", natZone |-> 1]
    /\ Cardinality(PlacedIn(1, "Alb")) = 2

SeqRange(q) == {q[k] : k \in 1 .. Len(q)}

\* The constructs that construct c holds a reference to.
References(i, c) ==
    LET r == tree[i][c] IN
    CASE r.kind = "Cluster" -> {r.vpc}
      [] r.kind = "ContainerDefinition" -> {r.taskDefinition, r.image}
      [] r.kind = "SecurityGroup" -> {r.vpc} \cup ({x.peer : x \in r.ingress} \ {AnyIpv4})
      [] r.kind = "FargateService" -> {r.cluster, r.taskDefinition} \cup r.securityGroups
      [] r.kind = "ApplicationTargetGroup" -> {r.vpc} \cup r.targets
      [] r.kind = "ApplicationLoadBalancer" -> {r.vpc, r.securityGroup}
      [] r.kind = "ApplicationListener" ->
             {r.loadBalancer} \cup SeqRange(r.defaultAction.targetGroups)
      [] r.kind = "ScalableTaskCount" -> {r.service}
      [] r.kind = "TargetTrackingScalingPolicy" -> {r.scalableTarget, r.targetGroup}
      [] OTHER -> {}

\* The statements whose constructs statement s uses.
Uses(s) ==
    CASE s = "ServiceIngress" -> {"ServiceSecurityGroup", "AlbSecurityGroup"}
      [] s = "AlbIngress" -> {"AlbSecurityGroup"}
      [] s = "AttachTargetGroup" -> {"Service", "AlbTargetGroup"}
      [] s = "HttpListener" -> {"Alb", "AlbTargetGroup"}
      [] s = "ScaleOnRequestCount" -> {"AutoScaleTaskCount", "Service", "AlbTargetGroup"}
      [] OTHER -> {}

\* C13: at every step, whatever has been created refers only to constructs
\* that already exist: the service group's inbound rule comes after the edge
\* group, the attachment and the listener after the target group, the scaling
\* policy after the service and the target group, every output after the
\* construct it reports.
C13_ReferencesExist ==
    \A i \in Apps :
        /\ \A c \in Created(i) : References(i, c) \subseteq Created(i)
        /\ \A o \in DOMAIN outputs[i] : outputs[i][o].of \in Created(i)
        /\ \A k \in 1 .. Len(order[i]) :
               Uses(order[i][k]) \subseteq SeqRange(SubSeq(order[i], 1, k - 1))

\* The scaling policy has just been created, after the service, the target
\* group and the service group's rule from the edge group.
C13_Witness ==
    /\ pc[1] = "OutAlbDnsName"
    /\ References(1, "AlbRequestCountScaling") = {"TaskCount", "AlbTargetGroup"}
    /\ "AlbSecurityGroup" \in References(1, "ServiceSecurityGroup")
    /\ "Service" \in References(1, "AlbTargetGroup")
    /\ "AlbTargetGroup" \in References(1, "HttpListener")

TargetGroups(i) == {c \in Created(i) : tree[i][c].kind = "ApplicationTargetGroup"}

\* C14: in an assembled topology one port, 80, is used along the whole request
\* path (edge inbound rule, service inbound rule, listener, target group,
\* container port mapping, container health-check probe, the workload's
\* default listen port), the target group's health-check path /health is a
\* route the workload answers with 200, and the one listener forwards to the
\* one target group, whose sole member is the service.
C14_OnePortAlongThePath ==
    \A i \in Apps :
        pc[i] = "returned" =>
            /\ {r.port : r \in IngressOf(i, "AlbSecurityGroup")} = {80}
            /\ {r.port : r \in IngressOf(i, "ServiceSecurityGroup")} = {80}
            /\ tree[i]["HttpListener"].port = 80
            /\ tree[i]["AlbTargetGroup"].port = 80
            /\ {m.containerPort : m \in tree[i]["AppContainer"].portMappings} = {80}
            /\ UrlPort(tree[i]["AppContainer"].healthCheckUrl) = 80
            /\ ServerListenPort(tree[i]["AppContainer"].portEnv) = 80
            /\ tree[i]["AlbTargetGroup"].healthCheck.path = "/health"
            /\ RouteStatus(tree[i]["AlbTargetGroup"].healthCheck.path) = 200
            /\ RouteStatus(tree[i]["AppContainer"].healthCheckUrl.path) = 200
            /\ Listeners(i) = {"HttpListener"}
            /\ tree[i]["HttpListener"].defaultAction =
                   [type |-> "forward", targetGroups |-> <<"AlbTargetGroup">>]
            /\ TargetGroups(i) = {"AlbTargetGroup"}
            /\ tree[i]["AlbTargetGroup"].targets = {"Service"}
            /\ tree[i]["Service"].taskDefinition = tree[i]["AppContainer"].taskDefinition

\* An assembled topology whose listener, target group and container all carry
\* port 80.
C14_Witness ==
    /\ pc[1] = "returned"
    /\ tree[1]["HttpListener"].port = tree[1]["AlbTargetGroup"].port
    /\ [containerPort |-> tree[1]["AlbTargetGroup"].port, protocol |-> "tcp"]
           \in tree[1]["AppContainer"].portMappings
    /\ tree[1]["AlbTargetGroup"].targets = {"Service"}

====
